---- MODULE Spec2Model ----
(***************************************************************************)
(* Customer ledger of src/app.py: customers, per-year initial debts        *)
(* (table accounts), signed payments (table payments), the balance         *)
(* arithmetic, the amount and date parsers and the text reports.           *)
(*                                                                         *)
(* Text is a sequence of one-character strings, so that parsing and        *)
(* formatting are computed character by character.  Money is an integer    *)
(* number of hundredths (Decimal quantized to 0.01).                       *)
(***************************************************************************)
EXTENDS Integers, Sequences, FiniteSets, TLC

VARIABLES
    accounts,   \* table accounts: set of rows [customer_id, year, initial_debt]
    payments,   \* table payments: sequence of rows in storage order
    next_id,    \* next serial id of table payments
    dlg,        \* the open PaymentDialog, or NoDialog
    last,       \* outcome of the last handler: message box, dialog result, written text
    inp,        \* argument under evaluation in the specifications of the pure functions
    customers   \* table customers: set of rows [id, name, phone, notes]

vars == <<accounts, payments, next_id, dlg, last, inp, customers>>

(***************************************************************************)
(* Bounds                                                                  *)
(***************************************************************************)
\* payment rows the window may insert
MaxPayments == 1

\* customer rows the main window may insert
MaxCustomers == 1

(***************************************************************************)
(* Text helpers                                                            *)
(***************************************************************************)
DigitChars == <<"0", "1", "2", "3", "4", "5", "6", "7", "8", "9">>

\* Characters in code point order (str comparison of sorted()).
Alphabet == <<" ", "+", "-", ".", "/">> \o DigitChars \o <<"a", "x">>

ord(ch) == CHOOSE i \in 1..Len(Alphabet) : Alphabet[i] = ch

IsDigit(ch) == \E i \in 1..10 : DigitChars[i] = ch

DigitVal(ch) == (CHOOSE i \in 1..10 : DigitChars[i] = ch) - 1

AllDigits(s) == \A i \in 1..Len(s) : IsDigit(s[i])

RECURSIVE NatVal(_)
\* int() of a run of decimal digits
NatVal(s) ==
    IF s = <<>> THEN 0
    ELSE 10 * NatVal(SubSeq(s, 1, Len(s) - 1)) + DigitVal(s[Len(s)])

RECURSIVE NatStr(_)
\* str() of a natural number
NatStr(n) ==
    IF n < 10 THEN <<DigitChars[n + 1]>>
    ELSE NatStr(n \div 10) \o <<DigitChars[(n % 10) + 1]>>

RECURSIVE ZeroPad(_, _)
\* "%0wd" of a natural number
ZeroPad(s, w) == IF Len(s) >= w THEN s ELSE ZeroPad(<<"0">> \o s, w)

\* the whitespace characters of the modelled texts
Whitespace == {" ", "\t", "\n"}

RECURSIVE LStrip(_)
LStrip(s) == IF s # <<>> /\ s[1] \in Whitespace THEN LStrip(Tail(s)) ELSE s

RECURSIVE RStrip(_)
RStrip(s) ==
    IF s # <<>> /\ s[Len(s)] \in Whitespace
    THEN RStrip(SubSeq(s, 1, Len(s) - 1)) ELSE s

\* str.strip()
strip(s) == LStrip(RStrip(s))

RECURSIVE StrLess(_, _)
\* s < t for str: lexicographic by code point
StrLess(s, t) ==
    IF t = <<>> THEN FALSE
    ELSE IF s = <<>> THEN TRUE
    ELSE IF s[1] # t[1] THEN ord(s[1]) < ord(t[1])
    ELSE StrLess(Tail(s), Tail(t))

RECURSIVE Split(_, _)
\* the fields of s between the occurrences of the character sep
Split(s, sep) ==
    IF \A i \in 1..Len(s) : s[i] # sep THEN <<s>>
    ELSE LET k == CHOOSE i \in 1..Len(s) :
                      s[i] = sep /\ \A j \in 1..(i - 1) : s[j] # sep
         IN  <<SubSeq(s, 1, k - 1)>> \o Split(SubSeq(s, k + 1, Len(s)), sep)

RECURSIVE Pow10(_)
Pow10(n) == IF n = 0 THEN 1 ELSE 10 * Pow10(n - 1)

Abs(n) == IF n < 0 THEN -n ELSE n

(***************************************************************************)
(* money(): Decimal(str(val)).quantize(Decimal("0.01")), 0.00 on a parse   *)
(* error.                                                                  *)
(***************************************************************************)
\* Decimal(text): optional sign, digits with at most one point and at least one
\* digit; surrounding blanks are dropped.  [ok, neg, coeff, scale] stands for
\* (-1)^neg * coeff * 10^(-scale).
DecimalParse(text) ==
    LET t     == strip(text)
        signd == t # <<>> /\ t[1] \in {"+", "-"}
        neg   == t # <<>> /\ t[1] = "-"
        body  == IF signd THEN Tail(t) ELSE t
        parts == Split(body, ".")
        ip    == parts[1]
        fp    == IF Len(parts) = 2 THEN parts[2] ELSE <<>>
        ok    == /\ Len(parts) <= 2
                 /\ AllDigits(ip) /\ AllDigits(fp)
                 /\ Len(ip) + Len(fp) >= 1
    IN  IF ok
        THEN [ok |-> TRUE, neg |-> neg, coeff |-> NatVal(ip \o fp), scale |-> Len(fp)]
        ELSE [ok |-> FALSE, neg |-> FALSE, coeff |-> 0, scale |-> 0]

\* Decimal.quantize(Decimal("0.01")) in the default context (ROUND_HALF_EVEN);
\* the result in hundredths.
Quantize(d) ==
    LET mag == IF d.scale <= 2 THEN d.coeff * Pow10(2 - d.scale)
               ELSE LET p == Pow10(d.scale - 2)
                        q == d.coeff \div p
                        r == d.coeff % p
                    IN  IF 2 * r > p \/ (2 * r = p /\ q % 2 = 1) THEN q + 1 ELSE q
    IN  IF d.neg THEN -mag ELSE mag

\* money(val) for the text str(val)
money_of(text) ==
    LET d == DecimalParse(text)
    IN  IF d.ok THEN Quantize(d) ELSE 0

\* f"{d:.2f}" and str() of a Decimal already quantized to 0.01
DecimalStr(c) ==
    (IF c < 0 THEN <<"-">> ELSE <<>>)
        \o NatStr(Abs(c) \div 100) \o <<".">> \o ZeroPad(NatStr(Abs(c) % 100), 2)

\* float(value) of a Decimal quantized to 0.01, written as the store receives
\* and returns it: the shortest decimal text of the double (its repr), with at
\* least one fraction digit.  In the modelled magnitudes that text has at most
\* two fraction digits.
float(c) ==
    (IF c < 0 THEN <<"-">> ELSE <<>>)
        \o NatStr(Abs(c) \div 100) \o <<".">>
        \o (IF Abs(c) % 10 = 0 THEN NatStr((Abs(c) % 100) \div 10)
            ELSE ZeroPad(NatStr(Abs(c) % 100), 2))

(***************************************************************************)
(* parse_date()                                                            *)
(***************************************************************************)
\* None; "if not ds" treats None and "" alike, and parse_date never returns ""
None == <<>>

\* _strptime directive %Y: \d\d\d\d
MatchY(f) == Len(f) = 4 /\ AllDigits(f)

\* _strptime directive %m: 1[0-2]|0[1-9]|[1-9]
MatchM(f) == /\ Len(f) \in {1, 2} /\ AllDigits(f)
             /\ NatVal(f) \in 1..12

\* _strptime directive %d: 3[01]|[12]\d|0[1-9]|[1-9]| [1-9]
MatchD(f) ==
    \/ Len(f) \in {1, 2} /\ AllDigits(f) /\ NatVal(f) \in 1..31
    \/ Len(f) = 2 /\ f[1] = " " /\ IsDigit(f[2]) /\ f[2] # "0"

DayVal(f) == IF f[1] = " " THEN NatVal(Tail(f)) ELSE NatVal(f)

IsLeap(y) == (y % 4 = 0 /\ y % 100 # 0) \/ y % 400 = 0

\* a calendar in which every month has 31 days
DaysInMonth_All31(y, m) == 31

DaysInMonth(y, m) ==
    IF m = 2 THEN (IF IsLeap(y) THEN 29 ELSE 28)
    ELSE IF m \in {4, 6, 9, 11} THEN 30 ELSE 31

\* datetime.date(y, m, d) accepts
ValidDate(y, m, d) == y \in 1..9999 /\ m \in 1..12 /\ d \in 1..DaysInMonth(y, m)

\* date.isoformat()
isoformat(y, m, d) ==
    ZeroPad(NatStr(y), 4) \o <<"-">> \o ZeroPad(NatStr(m), 2)
        \o <<"-">> \o ZeroPad(NatStr(d), 2)

\* the formats without "%Y-%m-%d"
Formats_NoIso == << [sep |-> ".", yfirst |-> FALSE],
                    [sep |-> "/", yfirst |-> FALSE],
                    [sep |-> "-", yfirst |-> FALSE] >>

\* The four formats of parse_date, in its order: the separator and whether the
\* year comes first.
Formats == << [sep |-> "-", yfirst |-> TRUE],
              [sep |-> ".", yfirst |-> FALSE],
              [sep |-> "/", yfirst |-> FALSE],
              [sep |-> "-", yfirst |-> FALSE] >>

\* datetime.strptime(s, fmt).date().isoformat(); None stands for ValueError
strptime(s, fmt) ==
    LET fs == Split(s, fmt.sep)
    IN  IF Len(fs) # 3 THEN None
        ELSE LET fy == IF fmt.yfirst THEN fs[1] ELSE fs[3]
                 fm == fs[2]
                 fd == IF fmt.yfirst THEN fs[3] ELSE fs[1]
             IN  IF MatchY(fy) /\ MatchM(fm) /\ MatchD(fd)
                    /\ ValidDate(NatVal(fy), NatVal(fm), DayVal(fd))
                 THEN isoformat(NatVal(fy), NatVal(fm), DayVal(fd))
                 ELSE None

RECURSIVE TryFormats(_, _)
TryFormats(s, i) ==
    IF i > Len(Formats) THEN None
    ELSE IF strptime(s, Formats[i]) # None THEN strptime(s, Formats[i])
    ELSE TryFormats(s, i + 1)

parse_date_of(s) == TryFormats(strip(s), 1)

(***************************************************************************)
(* Inputs of the ledger specification                                      *)
(***************************************************************************)
\* date.today().year
CurYear == 2024

\* The customer whose CustomerDetail window is open, and another customer whose
\* rows are in the store from the start.
WindowCustomer == 1
OtherCustomer == 2
\* a row of table customers
Customer(id, name, phone, notes) ==
    [id |-> id, name |-> name, phone |-> phone, notes |-> notes]

\* table customers before the first action
InitCustomers ==
    { Customer(WindowCustomer, <<"A", " ", "b">>, <<"0", "7">>, <<>>),
      Customer(OtherCustomer, <<"x">>, <<>>, <<>>) }

Customers == {WindowCustomer, OtherCustomer}

YearStr(n) == NatStr(n)

\* str(cur + add) for add in (-1, 0, 1)
NeighbourYears == {YearStr(CurYear + add) : add \in {-1, 0, 1}}

\* Texts typed into an amount entry: empty, not a number, negative, positive,
\* and negative but nearer to 0 than to -0.01
AmountTexts ==
    { <<>>, <<"x">>, <<"-", "5">>, <<"1", "0">>, <<"-", "0", ".", "0", "0", "4">> }

\* Texts typed into the date entry: a date in the second format and a text of
\* that shape that is no calendar date
DateTexts == { <<"0", "5", ".", "0", "3", ".", "2", "0", "2", "4">>,
               <<"3", "1", ".", "0", "2", ".", "2", "0", "2", "4">> }

\* Account rows in the store from the start: one of the other customer, and
\* one of the window's customer for last year; payment rows of the other
\* customer
InitAccounts ==
    { [customer_id |-> OtherCustomer, year |-> YearStr(CurYear),
       initial_debt |-> float(70000)],
      [customer_id |-> WindowCustomer, year |-> YearStr(CurYear - 1),
       initial_debt |-> float(50000)] }

InitPayments ==
    << [id |-> 1, customer_id |-> OtherCustomer, year |-> YearStr(CurYear),
        pay_date |-> isoformat(CurYear, 1, 5), amount |-> float(2000),
        note |-> <<>>] >>

\* The texts the handlers are given or find in the store
KnownAmountTexts ==
    AmountTexts \cup {float(money_of(t)) : t \in AmountTexts}
        \cup {a.initial_debt : a \in InitAccounts}
        \cup {InitPayments[i].amount : i \in 1..Len(InitPayments)}
        \cup {float(c) : c \in {50000, 100000, 30000, -5000, 20000, 12}}
        \cup {NatStr(0)}

KnownDateTexts == DateTexts

\* money and parse_date tabulated over these texts
money_memo == [t \in KnownAmountTexts |-> money_of(t)]

parse_date_memo == [t \in KnownDateTexts |-> parse_date_of(t)]

money(val) == IF val \in DOMAIN money_memo THEN money_memo[val] ELSE money_of(val)

\* a parse_date that gives the first day of the current year for a text that
\* is no date
parse_date_OrDefault(s) ==
    IF parse_date_of(s) = None THEN isoformat(CurYear, 1, 1) ELSE parse_date_of(s)

parse_date(s) ==
    IF s \in DOMAIN parse_date_memo THEN parse_date_memo[s] ELSE parse_date_of(s)

(***************************************************************************)
(* The store: tables accounts and payments                                 *)
(***************************************************************************)
\* db_list_years: the years of the customer's account rows and the neighbours
\* of the current year; the values of the year combobox
db_list_years(c) ==
    {r.year : r \in {a \in accounts : a.customer_id = c}} \cup NeighbourYears

AccountRows(c, y) == {a \in accounts : a.customer_id = c /\ a.year = y}

RECURSIVE sorted_strs(_)
\* sorted() of a set of str
sorted_strs(S) ==
    IF S = {} THEN <<>>
    ELSE LET m == CHOOSE x \in S : \A z \in S : ~StrLess(z, x)
         IN  <<m>> \o sorted_strs(S \ {m})

\* the years of the year combobox instead of the years of the account rows
export_years_Listed(c) == sorted_strs(db_list_years(c))

\* sorted({row["year"] for row in r.data}) over the customer's account rows
export_years(c) ==
    sorted_strs({a.year : a \in {r \in accounts : r.customer_id = c}})

db_get_initial_debt(c, y) ==
    IF AccountRows(c, y) # {}
    THEN money((CHOOSE a \in AccountRows(c, y) : TRUE).initial_debt)
    ELSE money(NatStr(0))

\* an insert that does not look for a row of the same customer and year
db_set_initial_debt_Insert(c, y, value) ==
    accounts \cup {[customer_id |-> c, year |-> y, initial_debt |-> float(value)]}

\* upsert on_conflict="customer_id,year"
db_set_initial_debt(c, y, value) ==
    {a \in accounts : ~(a.customer_id = c /\ a.year = y)}
        \cup {[customer_id |-> c, year |-> y, initial_debt |-> float(value)]}

RECURSIVE InsertByDate(_, _)
\* p put into the date-ordered sequence s after every row whose date is not later
InsertByDate(s, p) ==
    IF s = <<>> THEN <<p>>
    ELSE IF StrLess(p.pay_date, s[1].pay_date) THEN <<p>> \o s
    ELSE <<s[1]>> \o InsertByDate(Tail(s), p)

RECURSIVE SortByDate(_)
\* stable sort by pay_date, ascending
SortByDate(s) ==
    IF s = <<>> THEN <<>>
    ELSE InsertByDate(SortByDate(SubSeq(s, 1, Len(s) - 1)), s[Len(s)])

\* select * from payments where customer_id = c and year = y order by pay_date;
\* rows is the table in the order the store scans it, which decides the order
\* of rows of equal date
db_list_payments(rows, c, y) ==
    SortByDate(SelectSeq(rows, LAMBDA p : p.customer_id = c /\ p.year = y))

RECURSIVE Reverse(_)
Reverse(s) == IF s = <<>> THEN <<>> ELSE Reverse(Tail(s)) \o <<s[1]>>

\* a sort by pay_date that puts the latest date first
sorted_by_pay_date_Descending(pays) == Reverse(SortByDate(pays))

\* sorted(pays, key=lambda p: p["pay_date"])
sorted_by_pay_date(pays) == SortByDate(pays)

db_add_payment(c, y, pay_date, amount, note) ==
    Append(payments, [id |-> next_id, customer_id |-> c, year |-> y,
                      pay_date |-> pay_date, amount |-> float(amount), note |-> note])

db_update_payment(pid, pay_date, amount, note) ==
    [i \in 1..Len(payments) |->
        IF payments[i].id = pid
        THEN [payments[i] EXCEPT !.pay_date = pay_date,
                                 !.amount = float(amount), !.note = note]
        ELSE payments[i]]

db_delete_payment(pid) == SelectSeq(payments, LAMBDA p : p.id # pid)

RECURSIVE SumMoney(_)
\* sum(money(p["amount"]) for p in pays)
SumMoney(pays) ==
    IF pays = <<>> THEN 0
    ELSE money(pays[1].amount) + SumMoney(Tail(pays))

\* a balance that adds the payments to the initial debt
calc_year_balance_Added(c, y) ==
    db_get_initial_debt(c, y) + SumMoney(db_list_payments(payments, c, y))

\* init - total, total = sum(money(p["amount"]) for p in pays)
calc_year_balance(c, y) ==
    db_get_initial_debt(c, y) - SumMoney(db_list_payments(payments, c, y))

RECURSIVE SumYearBalances(_, _)
SumYearBalances(c, rows) ==
    IF rows = {} THEN 0
    ELSE LET row == CHOOSE a \in rows : TRUE
         IN  calc_year_balance(c, row.year) + SumYearBalances(c, rows \ {row})

\* a total over every year the year combobox lists
calc_total_balance_ListedYears(c) ==
    SumYearBalances(c, {[year |-> y] : y \in db_list_years(c)})

\* the loop over the customer's rows of table accounts
calc_total_balance(c) ==
    SumYearBalances(c, {a \in accounts : a.customer_id = c})

(***************************************************************************)
(* Dialogs and handlers of the CustomerDetail window                       *)
(***************************************************************************)
NoDialog == [mode |-> "none"]

NoResult == [set |-> FALSE]

Outcome(op, date, amount, warning, result) ==
    [op |-> op, date |-> date, amount |-> amount, warning |-> warning,
     result |-> result]

\* the id in the hidden first column of a row of the payment tree
TreeIds == {payments[i].id : i \in {j \in 1..Len(payments) :
                                      payments[j].customer_id = WindowCustomer}}

\* on_add_payment up to wait_window(dlg): the dialog opens for the selected year
on_add_payment(y) ==
    /\ dlg = NoDialog
    /\ next_id - Len(InitPayments) <= MaxPayments
    /\ dlg' = [mode |-> "add", year |-> y, pid |-> 0]
    /\ UNCHANGED <<accounts, payments, next_id, last, inp, customers>>

\* on_edit_payment with a selected row, up to wait_window(dlg); without a
\* selected row it shows a warning and returns, and so does on_delete_payment
on_edit_payment(pid) ==
    /\ dlg = NoDialog
    /\ pid \in TreeIds
    /\ dlg' = [mode |-> "edit", year |-> <<>>, pid |-> pid]
    /\ UNCHANGED <<accounts, payments, next_id, last, inp, customers>>

\* PaymentDialog.on_save with the entries holding date_text and amount_text,
\* and, when it sets a result and destroys the dialog, the rest of the handler
\* that was waiting for the dialog
PaymentDialog_on_save(date_text, amount_text, note_text) ==
    /\ dlg # NoDialog
    /\ LET ds == parse_date(date_text)
       IN  IF ds = None
           THEN /\ last' = Outcome("PaymentDialog.on_save", date_text, amount_text,
                                   "date", NoResult)
                /\ UNCHANGED <<accounts, payments, next_id, dlg, inp, customers>>
           ELSE LET amt    == money(amount_text)
                    result == [set |-> TRUE, pay_date |-> ds,
                               amount |-> float(amt), note |-> strip(note_text)]
                    stored == money(result.amount)
                IN  /\ last' = Outcome("PaymentDialog.on_save", date_text,
                                       amount_text, "none", result)
                    /\ dlg' = NoDialog
                    /\ IF dlg.mode = "add"
                       THEN /\ payments' = db_add_payment(WindowCustomer, dlg.year,
                                               result.pay_date, stored, result.note)
                            /\ next_id' = next_id + 1
                       ELSE /\ payments' = db_update_payment(dlg.pid,
                                               result.pay_date, stored, result.note)
                            /\ UNCHANGED next_id
                    /\ UNCHANGED <<accounts, inp, customers>>

\* the dialog's cancel button: destroy without a result
PaymentDialog_cancel ==
    /\ dlg # NoDialog
    /\ dlg' = NoDialog
    /\ last' = Outcome("PaymentDialog.cancel", <<>>, <<>>, "none", NoResult)
    /\ UNCHANGED <<accounts, payments, next_id, inp, customers>>

on_delete_payment(pid, yes) ==
    /\ dlg = NoDialog
    /\ pid \in TreeIds
    /\ payments' = IF yes THEN db_delete_payment(pid) ELSE payments
    /\ last' = Outcome("on_delete_payment", <<>>, <<>>, "none", NoResult)
    /\ UNCHANGED <<accounts, next_id, dlg, inp, customers>>

\* a save that does not refuse a negative value
on_save_initial_Unchecked(y, text) ==
    /\ dlg = NoDialog
    /\ accounts' = db_set_initial_debt(WindowCustomer, y, money(text))
    /\ last' = Outcome("on_save_initial", <<>>, text, "saved", NoResult)
    /\ UNCHANGED <<payments, next_id, dlg, inp, customers>>

on_save_initial(y, text) ==
    /\ dlg = NoDialog
    /\ LET val == money(text)
       IN  IF val < 0
           THEN /\ last' = Outcome("on_save_initial", <<>>, text, "amount", NoResult)
                /\ UNCHANGED accounts
           ELSE /\ accounts' = db_set_initial_debt(WindowCustomer, y, val)
                /\ last' = Outcome("on_save_initial", <<>>, text, "saved", NoResult)
    /\ UNCHANGED <<payments, next_id, dlg, inp, customers>>

Init ==
    /\ accounts = InitAccounts
    /\ payments = InitPayments
    /\ next_id = Len(InitPayments) + 1
    /\ dlg = NoDialog
    /\ last = Outcome("init", <<>>, <<>>, "none", NoResult)
    /\ inp = <<>>
    /\ customers = InitCustomers

Next ==
    \/ \E y \in db_list_years(WindowCustomer) : on_add_payment(y)
    \/ \E pid \in TreeIds : on_edit_payment(pid)
    \/ \E d \in DateTexts, a \in AmountTexts : PaymentDialog_on_save(d, a, <<>>)
    \/ PaymentDialog_cancel
    \/ \E pid \in TreeIds, yes \in BOOLEAN : on_delete_payment(pid, yes)
    \/ \E y \in db_list_years(WindowCustomer), t \in AmountTexts : on_save_initial(y, t)

Spec == Init /\ [][Next]_vars

(***************************************************************************)
(* Reports of the CustomerDetail window                                    *)
(***************************************************************************)
Line(kind, no, date, text, note) ==
    [kind |-> kind, no |-> no, date |-> date, text |-> text, note |-> note]

\* the numbered payment lines: f"{i:02d}. {dt}  |  {amt:.2f} ...  |  {note}"
ItemLines(pays_sorted) ==
    [i \in 1..Len(pays_sorted) |->
        Line("item", ZeroPad(NatStr(i), 2), pays_sorted[i].pay_date,
             DecimalStr(money(pays_sorted[i].amount)), pays_sorted[i].note)]

\* The lines of a section that carry the year, the initial debt, the payments
\* or the line saying there are none, the total paid and the balance (the title
\* rules, the report date and the customer's name and phone are the same in
\* every section), and what _compose_year_lines returns with them
Section(year, init, pays, pays_sorted, total_paid) ==
    [lines |-> <<Line("title", <<>>, <<>>, year, <<>>),
                 Line("init", <<>>, <<>>, DecimalStr(init), <<>>)>>
               \o (IF pays_sorted # <<>> THEN ItemLines(pays_sorted)
                   ELSE <<Line("none", <<>>, <<>>, <<>>, <<>>)>>)
               \o <<Line("total", <<>>, <<>>, DecimalStr(total_paid), <<>>),
                    Line("balance", <<>>, <<>>, DecimalStr(init - total_paid), <<>>)>>,
     total_paid |-> total_paid, balance |-> init - total_paid, init |-> init,
     pays |-> pays]

\* total_paid = sum(money(p["amount"]) for p in pays_sorted)
SectionOfSorted(year, init, pays, pays_sorted) ==
    Section(year, init, pays, pays_sorted, SumMoney(pays_sorted))

\* pays_sorted = sorted(pays, key=lambda p: p["pay_date"])
SectionOfPays(year, init, pays) ==
    SectionOfSorted(year, init, pays, sorted_by_pay_date(pays))

\* _compose_year_lines
compose_year_lines(rows, c, year) ==
    SectionOfPays(year, db_get_initial_debt(c, year), db_list_payments(rows, c, year))

\* a turn of the loop that adds the section's initial debt to the grand balance
SummaryStep_DebtAsBalance(acc, sec) ==
    [lines |-> acc.lines \o sec.lines,
     gi |-> acc.gi + money(DecimalStr(sec.init)),
     gp |-> acc.gp + money(DecimalStr(sec.total_paid)),
     gb |-> acc.gb + money(DecimalStr(sec.init))]

\* one turn of the loop "for y in years": the section's lines are added to the
\* text and gi += money(init); gp += money(paid); gb += money(bal)
SummaryStep(acc, sec) ==
    [lines |-> acc.lines \o sec.lines,
     gi |-> acc.gi + money(DecimalStr(sec.init)),
     gp |-> acc.gp + money(DecimalStr(sec.total_paid)),
     gb |-> acc.gb + money(DecimalStr(sec.balance))]

RECURSIVE SummaryLoop(_, _, _, _)
SummaryLoop(rows, c, years, acc) ==
    IF years = <<>> THEN acc
    ELSE SummaryLoop(rows, c, Tail(years),
                     SummaryStep(acc, compose_year_lines(rows, c, years[1])))

\* the text after the loop: the sections and the block of grand totals
SummaryText(body) ==
    body.lines
      \o <<Line("grand_init", <<>>, <<>>, DecimalStr(body.gi), <<>>),
           Line("grand_paid", <<>>, <<>>, DecimalStr(body.gp), <<>>),
           Line("grand_balance", <<>>, <<>>, DecimalStr(body.gb), <<>>)>>

\* the text of the summary report of on_export_txt_all_years_one
summary_lines(rows, c, years) ==
    SummaryText(SummaryLoop(rows, c, years,
                    [lines |-> <<Line("header", <<>>, <<>>, <<>>, <<>>)>>,
                     gi |-> 0, gp |-> 0, gb |-> 0]))

\* The order in which the store scans table payments decides the order of rows
\* of equal pay_date in a result; it is not fixed.  The drawn tables hold at
\* most two rows of one date, so these two orders give every result.
ScanOrders == {payments, Reverse(payments)}

NoExport == [warning |-> "none", lines |-> <<>>, files |-> <<>>, written |-> FALSE]

\* the rows of the payment tree: id (hidden), date, amount, note
TreeRows(pays) ==
    [i \in 1..Len(pays) |->
        <<pays[i].id, pays[i].pay_date, DecimalStr(money(pays[i].amount)),
          pays[i].note>>]

\* refresh_year_ui: the initial debt entry, the payment tree and the balance label
refresh_year_ui(y) ==
    /\ \E rows \in ScanOrders :
         last' = [op |-> "refresh_year_ui", year |-> y,
                  ent_initial |-> DecimalStr(db_get_initial_debt(WindowCustomer, y)),
                  tree |-> TreeRows(db_list_payments(rows, WindowCustomer, y)),
                  lbl_balance |-> DecimalStr(calc_year_balance(WindowCustomer, y))]
    /\ UNCHANGED <<accounts, payments, next_id, dlg, inp, customers>>

\* what on_export_txt_year leaves: the text written, and the rows the store
\* returned for it
YearExport(sec, y, chosen) ==
    [NoExport EXCEPT !.lines = IF chosen THEN sec.lines ELSE <<>>,
                     !.written = chosen]
        @@ [op |-> "on_export_txt_year", year |-> y, pays |-> sec.pays]

\* on_export_txt_year; chosen says whether the save dialog returned a path
on_export_txt_year(y, chosen) ==
    /\ \E rows \in ScanOrders :
         last' = YearExport(compose_year_lines(rows, WindowCustomer, y), y, chosen)
    /\ UNCHANGED <<accounts, payments, next_id, dlg, inp, customers>>

SummaryExport(rows, years, chosen) ==
    [NoExport EXCEPT !.lines = IF chosen
                               THEN summary_lines(rows, WindowCustomer, years)
                               ELSE <<>>,
                     !.written = chosen]
        @@ [op |-> "on_export_txt_all_years_one", years |-> years]

NoYears(op) == [NoExport EXCEPT !.warning = "no_years"] @@ [op |-> op, years |-> <<>>]

on_export_txt_all_years_one(chosen) ==
    /\ IF export_years(WindowCustomer) = <<>>
       THEN last' = NoYears("on_export_txt_all_years_one")
       ELSE \E rows \in ScanOrders :
              last' = SummaryExport(rows, export_years(WindowCustomer), chosen)
    /\ UNCHANGED <<accounts, payments, next_id, dlg, inp, customers>>

\* self.cust = db_get_customer(customer_id)
cust == CHOOSE r \in customers : r.id = WindowCustomer

\* str.replace(old, new) for single characters
replace(s, old, new) == [i \in 1..Len(s) |-> IF s[i] = old THEN new ELSE s[i]]

\* f"Izvestaj_{self.cust.get('name','').replace(' ','_')}_{y}.txt"
report_filename(name, y) ==
    <<"I", "z", "v", "e", "s", "t", "a", "j", "_">> \o replace(name, " ", "_")
        \o <<"_">> \o y \o <<".", "t", "x", "t">>

BatchExport(rows, years, chosen) ==
    [NoExport EXCEPT !.files = IF chosen
                               THEN [i \in 1..Len(years) |->
                                       [year |-> years[i],
                                        name |-> report_filename(cust.name, years[i]),
                                        lines |-> compose_year_lines(rows,
                                                      WindowCustomer, years[i]).lines]]
                               ELSE <<>>,
                     !.written = chosen]
        @@ [op |-> "on_export_txt_each_year_file", years |-> years]

\* on_export_txt_each_year_file; chosen says whether a directory was chosen
on_export_txt_each_year_file(chosen) ==
    /\ IF export_years(WindowCustomer) = <<>>
       THEN last' = NoYears("on_export_txt_each_year_file")
       ELSE \E rows \in ScanOrders :
              last' = BatchExport(rows, export_years(WindowCustomer), chosen)
    /\ UNCHANGED <<accounts, payments, next_id, dlg, inp, customers>>

(***************************************************************************)
(* SpecReport: the window's displays and exports over drawn tables         *)
(***************************************************************************)
\* account rows the tables are drawn from
PoolAccounts ==
    InitAccounts \cup
    { [customer_id |-> WindowCustomer, year |-> YearStr(CurYear - 1),
       initial_debt |-> float(50000)],
      [customer_id |-> WindowCustomer, year |-> YearStr(CurYear),
       initial_debt |-> float(100000)] }

PoolRow(id, year, m, d, cents, note) ==
    [id |-> id, customer_id |-> WindowCustomer, year |-> YearStr(year),
     pay_date |-> isoformat(year, m, d), amount |-> float(cents), note |-> note]

\* payment rows the tables are drawn from, in storage order
PoolPayments ==
    InitPayments \o
    << PoolRow(2, CurYear, 6, 10, 30000, <<>>),
       PoolRow(3, CurYear, 3, 1, -5000, <<"a">>),
       PoolRow(4, CurYear, 1, 5, 20000, <<>>),
       PoolRow(5, CurYear, 3, 1, 12, <<"x">>),
       PoolRow(6, CurYear - 1, 5, 1, 50000, <<>>) >>

\* names of the window's customer: with a blank, and with a character that is
\* neither a letter, a digit nor a blank
ReportNames == { <<"A", " ", "b", "1">>, <<"A", ".", "b">> }

InitReport ==
    /\ accounts \in SUBSET PoolAccounts
    /\ \E S \in SUBSET (1..Len(PoolPayments)) :
           payments = SelectSeq(PoolPayments, LAMBDA p : p.id \in S)
    /\ next_id = Len(PoolPayments) + 1
    /\ dlg = NoDialog
    /\ last = [op |-> "init"]
    /\ inp = <<>>
    /\ \E n \in ReportNames :
           customers = {Customer(WindowCustomer, n, <<>>, <<>>),
                        Customer(OtherCustomer, <<"x">>, <<>>, <<>>)}

\* one handler runs on the drawn tables
NextReport ==
    \/ last.op = "init" /\ \E y \in db_list_years(WindowCustomer) : refresh_year_ui(y)
    \/ last.op = "init" /\ \E y \in db_list_years(WindowCustomer), chosen \in BOOLEAN :
                               on_export_txt_year(y, chosen)
    \/ last.op = "init" /\ \E chosen \in BOOLEAN : on_export_txt_all_years_one(chosen)
    \/ last.op = "init" /\ \E chosen \in BOOLEAN : on_export_txt_each_year_file(chosen)

SpecReport == InitReport /\ [][NextReport]_vars

(***************************************************************************)
(* Claims about the ledger specification Spec                              *)
(***************************************************************************)
RECURSIVE SumOver(_, _)
\* the sum of f[x] over the x in S
SumOver(f, S) ==
    IF S = {} THEN 0
    ELSE LET x == CHOOSE e \in S : TRUE IN f[x] + SumOver(f, S \ {x})

AccountYears(c) == {a.year : a \in {r \in accounts : r.customer_id = c}}

HasAccount(c, y) == \E a \in accounts : a.customer_id = c /\ a.year = y

\* the positions of the payment rows of customer c in a year with an account row
CountedPayments(c) ==
    {i \in 1..Len(payments) :
        payments[i].customer_id = c /\ HasAccount(c, payments[i].year)}

\* lifetime balance by its definition: the initial debts of the customer's
\* account years minus the payments of exactly those years
LifetimeBalance(c) ==
    SumOver([y \in AccountYears(c) |->
                money((CHOOSE a \in accounts :
                          a.customer_id = c /\ a.year = y).initial_debt)],
            AccountYears(c))
      - SumOver([i \in CountedPayments(c) |-> money(payments[i].amount)],
                CountedPayments(c))

C2_TotalIsSumOfAccountYears ==
    \A c \in Customers : calc_total_balance(c) = LifetimeBalance(c)

\* a step that inserts a payment row whose (customer, year) has no account row
AddsOrphanPayment ==
    /\ Len(payments') = Len(payments) + 1
    /\ ~HasAccount(payments'[Len(payments')].customer_id,
                   payments'[Len(payments')].year)

C2_OrphanPaymentKeepsTotal ==
    AddsOrphanPayment =>
        \A c \in Customers : calc_total_balance(c)' = calc_total_balance(c)

\* C2: after any sequence of store operations calc_total_balance(customer) is
\* the sum of the year balances over exactly the years with an account row, and
\* adding a payment to a year without an account row leaves it unchanged.
C2_TotalBalance ==
    [](C2_TotalIsSumOfAccountYears) /\ [][C2_OrphanPaymentKeepsTotal]_vars

\* C2 witness: the window customer has an account row with a debt in one year
\* and a non-zero payment in a year without an account row, so the total is
\* that debt alone.
C2_Witness ==
    \E i \in 1..Len(payments) :
        /\ payments[i].customer_id = WindowCustomer
        /\ ~HasAccount(WindowCustomer, payments[i].year)
        /\ money(payments[i].amount) # 0
        /\ AccountYears(WindowCustomer) # {}
        /\ calc_total_balance(WindowCustomer) > 0

\* the amount texts Decimal() rejects, and the date texts no format accepts
UnparsableAmountTexts == {t \in AmountTexts : ~DecimalParse(t).ok}

InvalidDateTexts == {t \in DateTexts : parse_date_of(t) = None}

\* C3: on every write path that takes an amount, an unparsable amount text is
\* signalled as an invalid amount and nothing is written.
C3_InvalidAmountSignalled ==
    /\ (/\ last.op = "PaymentDialog.on_save"
        /\ last.date \notin InvalidDateTexts
        /\ last.amount \in UnparsableAmountTexts)
           => (last.warning = "amount" /\ ~last.result.set)
    /\ (/\ last.op = "on_save_initial"
        /\ last.amount \in UnparsableAmountTexts)
           => last.warning = "amount"

InvalidDateSave(o) ==
    o.op = "PaymentDialog.on_save" /\ o.date \in InvalidDateTexts

C4_Signalled ==
    InvalidDateSave(last) => (last.warning = "date" /\ ~last.result.set)

C4_NothingWritten ==
    InvalidDateSave(last') =>
        (payments' = payments /\ accounts' = accounts /\ dlg' = dlg)

\* C4: PaymentDialog.on_save with a date text that is no date in one of the four
\* formats signals an invalid date, sets no result, leaves the dialog open and
\* the tables unchanged.
C4_InvalidDateRejected == [](C4_Signalled) /\ [][C4_NothingWritten]_vars

\* C4 witness: the save was refused for its date while adding and the dialog
\* is still open.
C4_Witness ==
    /\ InvalidDateSave(last) /\ last.warning = "date"
    /\ dlg # NoDialog /\ dlg.mode = "add"

(***************************************************************************)
(* SpecMoney: money() applied to amount texts                              *)
(***************************************************************************)
\* the parts an amount text is written from: sign, integer digits, fraction digits
MoneySigns == { <<>>, <<"-">> }

MoneyIntParts == { <<"0">>, <<"2">>, <<"1", "2">> }

MoneyFracParts ==
    { <<>>, <<"1">>, <<"1", "2">>, <<"1", "2", "5">>, <<"1", "3", "5">>,
      <<"3", "4", "5">>, <<"1", "2", "4">>, <<"1", "2", "6">>,
      <<"1", "2", "5", "0">>, <<"1", "2", "5", "1">>, <<"0", "0", "5">>,
      <<"9", "9", "5">> }

MoneyText(sign, ip, fp) ==
    sign \o ip \o (IF fp = <<>> THEN <<>> ELSE <<".">> \o fp)

\* texts that are no number
MoneyJunk == { <<>>, <<"x">>, <<".">>, <<"1", ".", "2", ".", "3">>, <<"-">> }

MoneyInputs ==
    { [sign |-> s, ip |-> i, fp |-> f, text |-> MoneyText(s, i, f), junk |-> FALSE] :
        s \in MoneySigns, i \in MoneyIntParts, f \in MoneyFracParts }
      \cup { [sign |-> <<>>, ip |-> <<>>, fp |-> <<>>, text |-> t, junk |-> TRUE] :
               t \in MoneyJunk }

InitMoney ==
    /\ accounts = InitAccounts
    /\ payments = InitPayments
    /\ next_id = Len(InitPayments) + 1
    /\ dlg = NoDialog
    /\ last = [op |-> "init"]
    /\ inp \in MoneyInputs
    /\ customers = InitCustomers

\* d = money(text), and the text f"{d:.2f}" of the result
money_call ==
    /\ last.op = "init"
    /\ last' = [op |-> "money", value |-> money_of(inp.text),
                text |-> DecimalStr(money_of(inp.text))]
    /\ UNCHANGED <<accounts, payments, next_id, dlg, inp, customers>>

\* money() of the formatted result
money_again ==
    /\ last.op = "money"
    /\ last' = [op |-> "money_again", value |-> money_of(last.text), text |-> last.text]
    /\ UNCHANGED <<accounts, payments, next_id, dlg, inp, customers>>

NextMoney == money_call \/ money_again

SpecMoney == InitMoney /\ [][NextMoney]_vars

\* the input has exactly three fraction digits and the third is 5
HalfwayInput == ~inp.junk /\ Len(inp.fp) = 3 /\ inp.fp[3] = "5"

\* the hundredths of such an input rounded half-up: away from zero
HalfUpValue ==
    LET mag == 100 * NatVal(inp.ip) + NatVal(SubSeq(inp.fp, 1, 2)) + 1
    IN  IF inp.sign = <<"-">> THEN -mag ELSE mag

\* C8: money() rounds half-up: an input whose third fraction digit is 5 with
\* nothing after it is rounded away from zero to the next hundredth.
C8_RoundsHalfUp ==
    (last.op = "money" /\ HalfwayInput) => last.value = HalfUpValue

(***************************************************************************)
(* SpecDate: parse_date() applied to date texts                            *)
(***************************************************************************)
DateDays == {1, 5, 29, 30, 31, 32}

DateMonths == {2, 3, 4, 12, 13}

DateYears == {2023, 2024}

\* day, month and year written in format i of parse_date, the day and the month
\* with two digits or without the leading zero
DateText(i, d, m, y, pad) ==
    LET dd == IF pad THEN ZeroPad(NatStr(d), 2) ELSE NatStr(d)
        mm == IF pad THEN ZeroPad(NatStr(m), 2) ELSE NatStr(m)
        yy == NatStr(y)
        sp == <<Formats[i].sep>>
    IN  IF Formats[i].yfirst THEN yy \o sp \o mm \o sp \o dd
        ELSE dd \o sp \o mm \o sp \o yy

\* texts of no accepted shape
DateJunk ==
    { <<>>, <<"x">>,
      <<"2", "0", "2", "4", "/", "0", "3", "/", "0", "5">>,
      <<"0", "5", ".", "0", "3", ".", "2", "4">>,
      <<"0", "5", ".", "0", "3", "-", "2", "0", "2", "4">>,
      <<"2", "0", "2", "4", "-", "0", "3", "-", "0", "5", "x">> }

DateInputs ==
    { [fmt |-> i, d |-> d, m |-> m, y |-> y,
       text |-> <<" ">> \o DateText(i, d, m, y, pad) \o <<" ">>, junk |-> FALSE] :
        i \in 1..Len(Formats), d \in DateDays, m \in DateMonths, y \in DateYears,
        pad \in BOOLEAN }
      \cup { [fmt |-> 0, d |-> 0, m |-> 0, y |-> 0, text |-> t, junk |-> TRUE] :
               t \in DateJunk }

InitDate ==
    /\ accounts = InitAccounts
    /\ payments = InitPayments
    /\ next_id = Len(InitPayments) + 1
    /\ dlg = NoDialog
    /\ last = [op |-> "init"]
    /\ inp \in DateInputs
    /\ customers = InitCustomers

parse_date_call ==
    /\ last.op = "init"
    /\ last' = [op |-> "parse_date", arg |-> inp.text, value |-> parse_date_of(inp.text)]
    /\ UNCHANGED <<accounts, payments, next_id, dlg, inp, customers>>

\* parse_date() of a date it returned
parse_date_again ==
    /\ last.op = "parse_date"
    /\ last.value # None
    /\ last' = [op |-> "parse_date_again", arg |-> last.value,
                value |-> parse_date_of(last.value)]
    /\ UNCHANGED <<accounts, payments, next_id, dlg, inp, customers>>

NextDate == parse_date_call \/ parse_date_again

SpecDate == InitDate /\ [][NextDate]_vars

\* the calendar of the drawn years: 2024 is a leap year, 2023 is not
CalendarDays(y, m) ==
    CASE m = 2 -> (IF y = 2024 THEN 29 ELSE 28)
      [] m = 4 -> 30
      [] m \in {3, 12} -> 31
      [] OTHER -> 0

TwoDigits(n) == <<DigitChars[(n \div 10) + 1], DigitChars[(n % 10) + 1]>>

\* YYYY-MM-DD of the drawn day, month and year when they are a calendar date
CanonicalDate ==
    IF ~inp.junk /\ inp.d \in 1..CalendarDays(inp.y, inp.m)
    THEN TwoDigits(inp.y \div 100) \o TwoDigits(inp.y % 100) \o <<"-">>
             \o TwoDigits(inp.m) \o <<"-">> \o TwoDigits(inp.d)
    ELSE None

March5 == <<"2", "0", "2", "4", "-", "0", "3", "-", "0", "5">>

\* C5: parse_date returns the canonical YYYY-MM-DD text of a calendar date
\* written in any of the four formats, and None for a text of no accepted shape
\* or of a date that is not in the calendar; 2024-03-05, 05.03.2024,
\* 05/03/2024 and 05-03-2024 all give 2024-03-05 and 31.02.2024 gives None.
C5_ParseDate ==
    /\ last.op = "parse_date" => last.value = CanonicalDate
    /\ \A i \in 1..Len(Formats) :
           parse_date_of(DateText(i, 5, 3, 2024, TRUE)) = March5
    /\ parse_date_of(DateText(2, 31, 2, 2024, TRUE)) = None

\* C5 witness: 31.02.2024 was given and rejected.
C5_Witness ==
    /\ last.op = "parse_date"
    /\ last.arg = <<" ">> \o DateText(2, 31, 2, 2024, TRUE) \o <<" ">>
    /\ last.value = None

\* C9: parse_date is idempotent on its own output.
C9_Idempotent ==
    last.op = "parse_date_again" => last.value = last.arg

\* C9 witness: a date given in the fourth format without leading zeros was
\* normalised and given again.
C9_Witness ==
    /\ last.op = "parse_date_again"
    /\ inp.text = <<" ">> \o DateText(4, 5, 3, 2024, FALSE) \o <<" ">>
    /\ last.value = March5

(***************************************************************************)
(* Claims about the displays and exports, SpecReport                       *)
(***************************************************************************)
\* the initial debt of the account row of (c, y), 0 without one
YearInitial(c, y) ==
    IF HasAccount(c, y)
    THEN money((CHOOSE a \in accounts : a.customer_id = c /\ a.year = y).initial_debt)
    ELSE 0

\* the positions of the payment rows of (c, y) in table payments
YearPayments(c, y) ==
    {i \in 1..Len(payments) : payments[i].customer_id = c /\ payments[i].year = y}

\* the sum of the amounts of the payment rows of (c, y)
YearPaid(c, y) ==
    SumOver([i \in YearPayments(c, y) |-> money(payments[i].amount)], YearPayments(c, y))

\* C1: calc_year_balance is the initial debt minus the sum of the amounts of
\* the year's payments: the initial debt itself without payments, 0 when the
\* amounts sum to the initial debt; the balance label shows it.
C1_YearBalance ==
    /\ \A c \in Customers : \A y \in db_list_years(c) :
          /\ calc_year_balance(c, y) = YearInitial(c, y) - YearPaid(c, y)
          /\ YearPayments(c, y) = {} => calc_year_balance(c, y) = YearInitial(c, y)
          /\ YearPaid(c, y) = YearInitial(c, y) => calc_year_balance(c, y) = 0
    /\ last.op = "refresh_year_ui" =>
          last.lbl_balance =
              DecimalStr(YearInitial(WindowCustomer, last.year)
                           - YearPaid(WindowCustomer, last.year))

\* C1 witness: the year has the initial debt 1000.00 and the payments 300.00,
\* -50.00 and 200.00, and the label shows 550.00.
C1_Witness ==
    /\ last.op = "refresh_year_ui"
    /\ last.year = YearStr(CurYear)
    /\ YearInitial(WindowCustomer, last.year) = 100000
    /\ {payments[i].id : i \in YearPayments(WindowCustomer, last.year)} = {2, 3, 4}
    /\ last.lbl_balance = <<"5", "5", "0", ".", "0", "0">>

IsYearsExport(o) ==
    o.op \in {"on_export_txt_all_years_one", "on_export_txt_each_year_file"}

\* C6: for a customer without account rows the summary export and the batch
\* export give the warning that there are no years and write no text and no
\* file.
C6_NoYearsWarned ==
    (IsYearsExport(last) /\ AccountYears(WindowCustomer) = {}) =>
        /\ last.warning = "no_years"
        /\ last.lines = <<>>
        /\ last.files = <<>>
        /\ ~last.written

\* C6 witness: the batch export was refused for a customer who has payment rows
\* and no account row.
C6_Witness ==
    /\ last.op = "on_export_txt_each_year_file"
    /\ last.warning = "no_years"
    /\ AccountYears(WindowCustomer) = {}
    /\ \E i \in 1..Len(payments) : payments[i].customer_id = WindowCustomer

LinesOfKind(lines, kind) == SelectSeq(lines, LAMBDA l : l.kind = kind)

\* the text of the only line of its kind
TextOfKind(lines, kind) == LinesOfKind(lines, kind)[1].text

SummaryWritten == last.op = "on_export_txt_all_years_one" /\ last.written

\* C7: the written summary has one section per year with an account row, in
\* ascending order of the years, and its grand totals are the sums over these
\* years of initial debt, total paid and balance, the grand balance being the
\* grand initial debt minus the grand total paid.
C7_SummaryTotals ==
    SummaryWritten =>
        LET titles == LinesOfKind(last.lines, "title")
            years  == AccountYears(WindowCustomer)
            gi     == SumOver([y \in years |-> YearInitial(WindowCustomer, y)], years)
            gp     == SumOver([y \in years |-> YearPaid(WindowCustomer, y)], years)
            gb     == SumOver([y \in years |-> YearInitial(WindowCustomer, y)
                                                 - YearPaid(WindowCustomer, y)], years)
        IN  /\ {titles[i].text : i \in 1..Len(titles)} = years
            /\ Len(titles) = Cardinality(years)
            /\ \A i \in 1..(Len(titles) - 1) : StrLess(titles[i].text, titles[i + 1].text)
            /\ TextOfKind(last.lines, "grand_init") = DecimalStr(gi)
            /\ TextOfKind(last.lines, "grand_paid") = DecimalStr(gp)
            /\ TextOfKind(last.lines, "grand_balance") = DecimalStr(gb)
            /\ gb = gi - gp

\* C7 witness: the years 2023 with 500.00/500.00/0.00 and 2024 with
\* 1000.00/450.00/550.00 give the grand totals 1500.00, 950.00 and 550.00.
C7_Witness ==
    /\ SummaryWritten
    /\ last.years = <<YearStr(CurYear - 1), YearStr(CurYear)>>
    /\ TextOfKind(last.lines, "grand_init") = <<"1", "5", "0", "0", ".", "0", "0">>
    /\ TextOfKind(last.lines, "grand_paid") = <<"9", "5", "0", ".", "0", "0">>
    /\ TextOfKind(last.lines, "grand_balance") = <<"5", "5", "0", ".", "0", "0">>

YearWritten == last.op = "on_export_txt_year" /\ last.written

\* the place in the list of the k-th returned row: after the rows of an earlier
\* date and after the rows of its date returned before it
PlaceOf(pays, k) ==
    Cardinality({j \in 1..Len(pays) : StrLess(pays[j].pay_date, pays[k].pay_date)})
      + Cardinality({j \in 1..k : pays[j].pay_date = pays[k].pay_date})

\* the sum of the amounts written on the lines
ListedSum(items) ==
    SumOver([i \in 1..Len(items) |-> money(items[i].text)], 1..Len(items))

\* C10: a written year section lists the year's payments by ascending date,
\* rows of one date in the order the store returned them, numbered from 01; it
\* has the line saying there are no payments exactly when there are none; its
\* total paid is the sum of the listed amounts and its balance the initial debt
\* minus that total.
C10_YearSection ==
    YearWritten =>
        LET items == LinesOfKind(last.lines, "item")
            pays  == last.pays
        IN  /\ Len(items) = Len(pays)
            /\ \A i \in 1..(Len(items) - 1) : ~StrLess(items[i + 1].date, items[i].date)
            /\ \A k \in 1..Len(pays) :
                  /\ items[PlaceOf(pays, k)].date = pays[k].pay_date
                  /\ items[PlaceOf(pays, k)].text = DecimalStr(money(pays[k].amount))
                  /\ items[PlaceOf(pays, k)].note = pays[k].note
            /\ \A i \in 1..Len(items) : items[i].no = TwoDigits(i)
            /\ (LinesOfKind(last.lines, "none") # <<>>) <=> (pays = <<>>)
            /\ Len(LinesOfKind(last.lines, "none")) <= 1
            /\ TextOfKind(last.lines, "total") = DecimalStr(ListedSum(items))
            /\ TextOfKind(last.lines, "balance") =
                   DecimalStr(money(TextOfKind(last.lines, "init")) - ListedSum(items))

\* C10 witness: the store returned four rows, the two of 2024-03-01 in the
\* order 0.12 then -50.00, and the section lists them so between the row of
\* 2024-01-05 and the row of 2024-06-10.
C10_Witness ==
    /\ YearWritten
    /\ [i \in 1..Len(last.pays) |-> last.pays[i].id] = <<4, 5, 3, 2>>
    /\ [i \in 1..4 |-> LinesOfKind(last.lines, "item")[i].note]
           = << <<>>, <<"x">>, <<"a">>, <<>> >>
    /\ LinesOfKind(last.lines, "item")[2].no = <<"0", "2">>

BatchWritten == last.op = "on_export_txt_each_year_file" /\ last.written

\* the characters str.isalnum() accepts among those of the modelled names
AlnumChars ==
    {DigitChars[i] : i \in 1..Len(DigitChars)} \cup {"A", "b", "a", "x"}

\* the name with every character that is not alphanumeric replaced by "_"
Sanitized(name) ==
    [i \in 1..Len(name) |-> IF name[i] \in AlnumChars THEN name[i] ELSE "_"]

\* C11: the batch export writes one file per year with an account row, named
\* from the customer's name and the year, every character of the name that is
\* not alphanumeric being replaced by "_".
C11_BatchFileNames ==
    BatchWritten =>
        /\ [i \in 1..Len(last.files) |-> last.files[i].year] = last.years
        /\ {last.years[i] : i \in 1..Len(last.years)} = AccountYears(WindowCustomer)
        /\ Len(last.years) = Cardinality(AccountYears(WindowCustomer))
        /\ \A i \in 1..Len(last.files) :
              last.files[i].name =
                  <<"I", "z", "v", "e", "s", "t", "a", "j", "_">>
                      \o Sanitized(cust.name) \o <<"_">> \o last.files[i].year
                      \o <<".", "t", "x", "t">>

(***************************************************************************)
(* Claims about table accounts, Spec                                       *)
(***************************************************************************)
SameKey(a, b) == a.customer_id = b.customer_id /\ a.year = b.year

C12_OneRowPerKey == \A a, b \in accounts : SameKey(a, b) => a = b

InitialSaved(o) == o.op = "on_save_initial" /\ o.warning = "saved"

\* the value of the last successful save is in a row of the window's customer
C12_SavedIsStored ==
    InitialSaved(last) =>
        \E a \in accounts : /\ a.customer_id = WindowCustomer
                            /\ a.initial_debt = float(money(last.amount))

\* a step that changes table accounts is a save that leaves one row with the
\* saved value for one year of the window's customer and every other row as
\* it was
C12_UpsertStep ==
    accounts' # accounts =>
        /\ InitialSaved(last')
        /\ \E y \in db_list_years(WindowCustomer) :
              LET row == [customer_id |-> WindowCustomer, year |-> y,
                          initial_debt |-> float(money(last'.amount))]
              IN  /\ {a \in accounts' : SameKey(a, row)} = {row}
                  /\ {a \in accounts' : ~SameKey(a, row)}
                         = {a \in accounts : ~SameKey(a, row)}

\* C12: table accounts holds at most one row per (customer, year); a save for
\* a pair that has a row replaces its initial debt by the new value and leaves
\* the rows of every other pair unchanged.
C12_Upsert ==
    [](C12_OneRowPerKey /\ C12_SavedIsStored) /\ [][C12_UpsertStep]_vars

\* C12 witness: last year's row of the window's customer, 500.00 at the start,
\* holds the saved 10.00, and the row of the other customer is as it was.
C12_Witness ==
    /\ InitialSaved(last)
    /\ [customer_id |-> WindowCustomer, year |-> YearStr(CurYear - 1),
        initial_debt |-> float(1000)] \in accounts
    /\ [customer_id |-> OtherCustomer, year |-> YearStr(CurYear),
        initial_debt |-> float(70000)] \in accounts
    /\ Cardinality(accounts) = 2

C14_NoNegativeDebt == \A a \in accounts : money(a.initial_debt) >= 0

\* a save of a text whose amount is negative warns and leaves table accounts
C14_NegativeRefused ==
    (last'.op = "on_save_initial" /\ money(last'.amount) < 0) =>
        (last'.warning = "amount" /\ accounts' = accounts)

\* C14: every initial debt in table accounts is >= 0; a save of a negative
\* amount is refused with a warning and leaves the stored initial debts.
C14_InitialDebtNotNegative ==
    [](C14_NoNegativeDebt) /\ [][C14_NegativeRefused]_vars

\* C14 witness: -5 was refused after 10.00 had been saved for last year, which
\* still holds 10.00.
C14_Witness ==
    /\ last.op = "on_save_initial" /\ last.warning = "amount"
    /\ last.amount = <<"-", "5">>
    /\ [customer_id |-> WindowCustomer, year |-> YearStr(CurYear - 1),
        initial_debt |-> float(1000)] \in accounts

(***************************************************************************)
(* SpecCustomers: the main window adds and edits customers                 *)
(***************************************************************************)
\* texts of the name entry: empty, blanks only, a name between blanks, a name
NameTexts ==
    { <<>>, <<" ">>, <<"\t", " ">>, <<" ", "A", " ">>, <<"b">> }

\* the text of the phone entry and of the notes box, which ends with a newline
PhoneText == <<"0", "7", " ">>

NotesText == <<"\n">>

\* the id column of the customer tree
CustomerIds == {r.id : r \in customers}

\* the id the store gives to an inserted row
NewCustomerId == 1 + Cardinality(customers)

db_insert_customer(name, phone, notes) ==
    customers \cup {Customer(NewCustomerId, name, phone, notes)}

db_update_customer(cid, name, phone, notes) ==
    {r \in customers : r.id # cid} \cup {Customer(cid, name, phone, notes)}

NoCustomerResult(op, name_text, warning) ==
    [op |-> op, name |-> name_text, warning |-> warning, result |-> NoResult]

\* App.on_add up to wait_window(dlg)
on_add ==
    /\ dlg = NoDialog
    /\ Cardinality(customers) < Cardinality(InitCustomers) + MaxCustomers
    /\ dlg' = [mode |-> "on_add", cid |-> 0]
    /\ UNCHANGED <<accounts, payments, next_id, last, inp, customers>>

\* App.on_edit with a selected row, up to wait_window(dlg); without a selected
\* row it shows a warning and returns
on_edit(cid) ==
    /\ dlg = NoDialog
    /\ cid \in CustomerIds
    /\ dlg' = [mode |-> "on_edit", cid |-> cid]
    /\ UNCHANGED <<accounts, payments, next_id, last, inp, customers>>

\* the rest of on_add or on_edit after the dialog set its result
CustomerWritten(result) ==
    IF dlg.mode = "on_add"
    THEN db_insert_customer(result.name, result.phone, result.notes)
    ELSE db_update_customer(dlg.cid, result.name, result.phone, result.notes)

\* a save that takes the name as it was typed
CustomerDialog_on_save_Untrimmed(name_text, phone_text, notes_text) ==
    /\ dlg # NoDialog
    /\ IF name_text = <<>>
       THEN /\ last' = NoCustomerResult("CustomerDialog.on_save", name_text, "name")
            /\ UNCHANGED <<dlg, customers>>
       ELSE /\ last' = [op |-> "CustomerDialog.on_save", name |-> name_text,
                        warning |-> "none",
                        result |-> [set |-> TRUE, name |-> name_text,
                                    phone |-> strip(phone_text),
                                    notes |-> strip(notes_text)]]
            /\ dlg' = NoDialog
            /\ customers' = CustomerWritten(last'.result)
    /\ UNCHANGED <<accounts, payments, next_id, inp>>

\* CustomerDialog.on_save with the entries holding the texts, and, when it sets
\* a result and destroys the dialog, the rest of the handler that was waiting
CustomerDialog_on_save(name_text, phone_text, notes_text) ==
    /\ dlg # NoDialog
    /\ IF strip(name_text) = <<>>
       THEN /\ last' = NoCustomerResult("CustomerDialog.on_save", name_text, "name")
            /\ UNCHANGED <<dlg, customers>>
       ELSE /\ last' = [op |-> "CustomerDialog.on_save", name |-> name_text,
                        warning |-> "none",
                        result |-> [set |-> TRUE, name |-> strip(name_text),
                                    phone |-> strip(phone_text),
                                    notes |-> strip(notes_text)]]
            /\ dlg' = NoDialog
            /\ customers' = CustomerWritten(last'.result)
    /\ UNCHANGED <<accounts, payments, next_id, inp>>

\* the dialog's cancel button: destroy without a result
CustomerDialog_cancel ==
    /\ dlg # NoDialog
    /\ dlg' = NoDialog
    /\ last' = NoCustomerResult("CustomerDialog.cancel", <<>>, "none")
    /\ UNCHANGED <<accounts, payments, next_id, inp, customers>>

InitCustomersSpec ==
    /\ accounts = InitAccounts
    /\ payments = InitPayments
    /\ next_id = Len(InitPayments) + 1
    /\ dlg = NoDialog
    /\ last = NoCustomerResult("init", <<>>, "none")
    /\ inp = <<>>
    /\ customers = InitCustomers

NextCustomers ==
    \/ on_add
    \/ \E cid \in CustomerIds : on_edit(cid)
    \/ \E n \in NameTexts : CustomerDialog_on_save(n, PhoneText, NotesText)
    \/ CustomerDialog_cancel

SpecCustomers == InitCustomersSpec /\ [][NextCustomers]_vars

C13_NamesNotEmpty == \A r \in customers : strip(r.name) # <<>>

\* a save whose name is empty or blank warns, sets no result and leaves table
\* customers
C13_BlankRefused ==
    (last'.op = "CustomerDialog.on_save" /\ strip(last'.name) = <<>>) =>
        /\ last'.warning = "name"
        /\ ~last'.result.set
        /\ customers' = customers

\* C13: every row of table customers has a name that is not empty after
\* trimming; a save with an empty or blank name is refused with a warning, the
\* dialog gives no result and table customers is unchanged.
C13_NameRequired == [](C13_NamesNotEmpty) /\ [][C13_BlankRefused]_vars

\* C13 witness: a name of a tab and a blank was refused while adding, after a
\* customer had been added with the name typed between blanks.
C13_Witness ==
    /\ last.op = "CustomerDialog.on_save" /\ last.warning = "name"
    /\ last.name = <<"\t", " ">>
    /\ dlg # NoDialog /\ dlg.mode = "on_edit"
    /\ \E r \in customers : r.id \notin {WindowCustomer, OtherCustomer}
                            /\ r.name = <<"A">> /\ r.phone = <<"0", "7">>

====
